---- MODULE Spec2Model ----
(***************************************************************************)
(* The request pipeline of the user-management service: the correlation    *)
(* context (TransactionIdMiddleware), the rate limiter                      *)
(* (RateLimitMiddleware) over a Redis counter store, the JWT auth gate      *)
(* (JWTBearer) and the route handlers behind it.                           *)
(*                                                                         *)
(* Requests run as concurrent tasks.  A task is suspended only at an await, *)
(* so one action is the code between two awaits of one request.            *)
(***************************************************************************)
EXTENDS Integers, FiniteSets, Sequences, TLC

\* ------------------------------------------------------------- bounds ----
\* Number of requests that can be in flight at the same time.
MaxTasks == 2
\* The clock counts ticks 0..MaxTime and stays at MaxTime afterwards: a
\* token expires within the model when its exp is below MaxTime.
MaxTime == 1
\* The limiter's thresholds and window length.  app/core/constants.py, which
\* sets them, is not part of the sources; the values are configuration, taken
\* here as the smallest ones that keep the POST threshold the stricter one.
RATE_LIMIT_POST == 1
RATE_LIMIT_OTHER == 2
WINDOW == 2

Tasks == 1..MaxTasks

\* Python's None where a string is expected.
None == "<None>"

\* ------------------------------------------------------------- tokens ----
SECRET_KEY == "SECRET_KEY"

\* Token lifetime in ticks (ACCESS_TOKEN_EXPIRE_MINUTES).
ACCESS_TOKEN_EXPIRE_MINUTES == 1

\* The strings that can stand in an Authorization header's credentials:
\* the empty string, a string that is no JWT, and a JWT with its claims (the
\* id, the registered claim aud when it is not None, exp when has_exp) and
\* the key it was signed with.
EmptyToken ==
    [kind |-> "empty", id |-> None, aud |-> None, key |-> None, exp |-> 0,
     has_exp |-> FALSE]
JunkToken ==
    [kind |-> "junk", id |-> None, aud |-> None, key |-> None, exp |-> 0,
     has_exp |-> FALSE]
JwtClaims(id, aud, key, exp, has_exp) ==
    [kind |-> "jwt", id |-> id, aud |-> aud, key |-> key, exp |-> exp,
     has_exp |-> has_exp]
Jwt(id, key, exp) == JwtClaims(id, None, key, exp, TRUE)

\* verify_token's None.
NoPayload == [id |-> None, aud |-> None, exp |-> 0 - 1, has_exp |-> FALSE]

\* jwt.decode(token, key, algorithms): the structure, the signature, then
\* the registered claims: exp, when the token has one, against the clock
\* (python-jose rejects exp < now), and aud, which no token passes because
\* the call names no audience.
jwt_decode(token, key, t) ==
    IF /\ token.kind = "jwt"
       /\ token.key = key
       /\ (token.has_exp => ~(token.exp < t))
       /\ token.aud = None
    THEN [id |-> token.id, aud |-> token.aud, exp |-> token.exp,
          has_exp |-> token.has_exp]
    ELSE NoPayload

verify_token(token, t) ==
    IF token.kind = "empty" THEN NoPayload ELSE jwt_decode(token, SECRET_KEY, t)

\* The expires_delta argument of create_access_token: None when the call
\* passes none, or a duration in ticks.
NoExpiresDelta == [given |-> FALSE, minutes |-> 0]
timedelta(minutes) == [given |-> TRUE, minutes |-> minutes]

\* expires_delta or timedelta(minutes=int(ACCESS_TOKEN_EXPIRE_MINUTES)):
\* None and the zero duration are both false to `or`.
lifetime(expires_delta) ==
    IF expires_delta.given /\ expires_delta.minutes # 0
    THEN expires_delta.minutes
    ELSE ACCESS_TOKEN_EXPIRE_MINUTES

\* An issuer that subtracts the lifetime instead of adding it.
create_access_token_backdated(data, expires_delta, t) ==
    JwtClaims(data.id, data.aud, SECRET_KEY, t - lifetime(expires_delta), TRUE)

\* create_access_token: the claims of data with exp = now + the lifetime,
\* signed with SECRET_KEY.
create_access_token(data, expires_delta, t) ==
    JwtClaims(data.id, data.aud, SECRET_KEY, t + lifetime(expires_delta), TRUE)

hash_password(password) == <<"bcrypt", password>>

verify_password(plain_password, hashed_password) ==
    IF plain_password = "" \/ hashed_password = <<>>
    THEN FALSE
    ELSE hashed_password = hash_password(plain_password)

\* A check that asks only whether the caller is authenticated.
allow_access_authenticated(id, current_user) == current_user.id # None

allow_access(id, current_user) == id = current_user.id

\* ------------------------------------------------------------ headers ----
\* An Authorization header "<scheme> <credentials>"; scheme "" is no header.
NoAuthorization == [scheme |-> "", credentials |-> EmptyToken]
Bearer(token) == [scheme |-> "Bearer", credentials |-> token]

\* headers.get("Authorization", "").replace("Bearer ", ""): only the exact
\* prefix "Bearer " is removed; with any other scheme the whole header value
\* is taken as the token, and it is no JWT.
StripBearer(authorization) ==
    IF authorization.scheme = "" THEN EmptyToken
    ELSE IF authorization.scheme = "Bearer" THEN authorization.credentials
    ELSE JunkToken

Lower(scheme) == IF scheme = "Bearer" THEN "bearer" ELSE scheme


\* A gate that takes the claims of a bearer token without verifying it.
JWTBearer_unverified(authorization, t) ==
    IF authorization.scheme = "" \/ authorization.credentials.kind # "jwt"
    THEN [payload |-> NoPayload, status |-> 403, detail |-> "Not authenticated"]
    ELSE [payload |-> [id |-> authorization.credentials.id,
                       aud |-> authorization.credentials.aud,
                       exp |-> authorization.credentials.exp,
                       has_exp |-> authorization.credentials.has_exp],
          status |-> 200, detail |-> ""]

\* A gate that returns whatever verify_token returns and never raises for
\* credentials that are present.
JWTBearer_fail_open(authorization, t) ==
    IF authorization.scheme = "" \/ authorization.credentials.kind = "empty"
    THEN [payload |-> NoPayload, status |-> 403, detail |-> "Not authenticated"]
    ELSE [payload |-> verify_token(authorization.credentials, t),
          status |-> 200, detail |-> ""]

\* fastapi's HTTPBearer followed by JWTBearer.__call__: the credentials'
\* payload, or the HTTPException that ends the request.
JWTBearer(authorization, t) ==
    IF authorization.scheme = "" \/ authorization.credentials.kind = "empty"
    THEN [payload |-> NoPayload, status |-> 403, detail |-> "Not authenticated"]
    ELSE IF Lower(authorization.scheme) # "bearer"
    THEN [payload |-> NoPayload, status |-> 403,
          detail |-> "Invalid authentication credentials"]
    ELSE IF verify_token(authorization.credentials, t) # NoPayload
    THEN [payload |-> verify_token(authorization.credentials, t),
          status |-> 200, detail |-> ""]
    ELSE [payload |-> NoPayload, status |-> 403,
          detail |-> "Invalid or expired token"]

\* -------------------------------------------------------------- users ----
User(id, username, password, is_deleted) ==
    [id |-> id, username |-> username,
     password |-> hash_password(password), is_deleted |-> is_deleted]

\* A store with a live user and a soft-deleted one whose tokens still verify.
InitialUsers ==
    {User("u1", "alice", "Pw1", FALSE), User("u2", "bob", "Pw2", TRUE)}

\* models.user.user_data: the claims a login puts into the token.
user_data(user) == [id |-> user.id, aud |-> None]

\* A lookup that leaves is_deleted out of the query.
get_user_by_including_deleted(users, field, value) ==
    {u \in users : u[field] = value}

\* UserCrud.get_user: find_one({**user_details, 'is_deleted': False}).
get_user_by(users, field, value) ==
    {u \in users : u[field] = value /\ ~u.is_deleted}

\* find_one: one of the documents that match; which one is the store's
\* choice when several do.
find_one(documents) == CHOOSE d \in documents : TRUE

\* The id insert_one gives the user a request creates; the store of the
\* model holds at most one created user.
inserted_user_id == "u3"

\* ---------------------------------------------------------- responses ----
NoResponse ==
    [status |-> 0, detail |-> "", by |-> "", retry |-> 0,
     access_token |-> EmptyToken, x_transaction_id |-> None]

\* A response as its producer builds it: no correlation header yet.
Resp(status, detail, by) ==
    [NoResponse EXCEPT !.status = status, !.detail = detail, !.by = by]

\* The document store as a route sees it: the two collections, and whether
\* the store answers.
Db(users, credentials, up) ==
    [users |-> users, credentials |-> credentials, up |-> up]

\* What a route leaves behind: its response and the collections, or an
\* exception that no handler of the route catches.
Returned(response, db) ==
    [response |-> response, users |-> db.users,
     credentials |-> db.credentials, raised |-> FALSE]
Unhandled(db) ==
    [response |-> NoResponse, users |-> db.users,
     credentials |-> db.credentials, raised |-> TRUE]

\* UserRepository.update_user_by_id: $set of the body's fields.
update_user(users, id, body) ==
    {IF u.id = id
     THEN [u EXCEPT !.username = body.username, !.is_deleted = body.is_deleted]
     ELSE u : u \in users}

\* UserRepository.delete_user_by_id: the soft delete.
delete_user(users, id) ==
    {IF u.id = id THEN [u EXCEPT !.is_deleted = TRUE] ELSE u : u \in users}

\* is_duplicate_username, the dependency of create_user: TRUE when a user
\* that is not deleted holds the username.
is_duplicate_username(users, username) ==
    get_user_by(users, "username", username) # {}

\* POST /api/users: the dependency runs outside the body's try.
create_user(req, t, db) ==
    IF ~db.up THEN Unhandled(db)
    ELSE IF is_duplicate_username(db.users, req.username)
    THEN Returned(Resp(400, "Username already exists",
                       "is_duplicate_username"), db)
    ELSE Returned(Resp(200, "", "create_user"),
            [db EXCEPT !.users =
                @ \cup {User(inserted_user_id, req.username, req.password,
                              req.is_deleted)}])

\* GET /api/users/{id}/user
get_user_by_id(req, t, db) ==
    LET current_user == JWTBearer(req.authorization, t) IN
    IF current_user.status # 200
    THEN Returned(Resp(current_user.status, current_user.detail, "JWTBearer"), db)
    ELSE IF ~allow_access(req.id, current_user.payload)
    THEN Returned(Resp(401, "Unauthorised action", "authorize"), db)
    ELSE IF ~db.up
    THEN Returned(Resp(500, "Exception occur while updating user",
                       "get_user_by_id"), db)
    ELSE IF get_user_by(db.users, "id", req.id) = {}
    THEN Returned(Resp(404, "User not found", "get_user_by_id"), db)
    ELSE Returned(Resp(200, "", "get_user_by_id"), db)

\* PUT /api/users/{id}/update
update_user_by_id(req, t, db) ==
    LET current_user == JWTBearer(req.authorization, t) IN
    IF current_user.status # 200
    THEN Returned(Resp(current_user.status, current_user.detail, "JWTBearer"), db)
    ELSE IF ~allow_access(req.id, current_user.payload)
    THEN Returned(Resp(401, "Unauthorised action", "authorize"), db)
    ELSE IF ~db.up
    THEN Returned(Resp(500, "Exception occur while updating user",
                       "update_user_by_id"), db)
    ELSE IF get_user_by(db.users, "id", req.id) = {}
    THEN Returned(Resp(404, "User not found", "update_user_by_id"), db)
    ELSE Returned(Resp(200, "User updated successfully", "update_user_by_id"),
                  [db EXCEPT !.users = update_user(db.users, req.id, req)])

\* DELETE /api/users/{id}/delete
delete_user_by_id(req, t, db) ==
    LET current_user == JWTBearer(req.authorization, t) IN
    IF current_user.status # 200
    THEN Returned(Resp(current_user.status, current_user.detail, "JWTBearer"), db)
    ELSE IF ~allow_access(req.id, current_user.payload)
    THEN Returned(Resp(401, "Unauthorised action", "authorize"), db)
    ELSE IF ~db.up
    THEN Returned(Resp(500, "Exception occur while updating user",
                       "delete_user_by_id"), db)
    ELSE IF get_user_by(db.users, "id", req.id) = {}
    THEN Returned(Resp(404, "User not found", "delete_user_by_id"), db)
    ELSE Returned(Resp(200, "User deleted successfully", "delete_user_by_id"),
                  [db EXCEPT !.users = delete_user(db.users, req.id)])

\* GET /api/users: the gate is the route's only dependency and the body has
\* no try.
get_all_user(req, t, db) ==
    LET current_user == JWTBearer(req.authorization, t) IN
    IF current_user.status # 200
    THEN Returned(Resp(current_user.status, current_user.detail, "JWTBearer"), db)
    ELSE IF ~db.up THEN Unhandled(db)
    ELSE Returned(Resp(200, "", "get_all_user"), db)

\* GET /api/users/me
me(req, t, db) ==
    LET user == JWTBearer(req.authorization, t) IN
    IF user.status # 200
    THEN Returned(Resp(user.status, user.detail, "JWTBearer"), db)
    ELSE Returned(Resp(200, "", "me"), db)

\* POST /api/users/login: no gate and no try.
login(req, t, db) ==
    LET found == get_user_by(db.users, "username", req.username) IN
    IF ~db.up THEN Unhandled(db)
    ELSE IF found = {}
    THEN Returned(Resp(401, "Invalid credentials", "login"), db)
    ELSE LET user == find_one(found) IN
         IF ~verify_password(req.password, user.password)
         THEN Returned(Resp(401, "Incorrect password", "login"), db)
         ELSE Returned([Resp(200, "", "login") EXCEPT
                  !.access_token =
                      create_access_token(user_data(user), NoExpiresDelta, t)],
                  db)

\* ------------------------------------------------------- credentials ----
Credential(id, user_id, title, is_deleted) ==
    [id |-> id, user_id |-> user_id, title |-> title, is_deleted |-> is_deleted]

\* One credential of the live user and one of the soft-deleted user.
InitialCredentials ==
    {Credential("c1", "u1", "t1", FALSE), Credential("c2", "u2", "t2", FALSE)}

\* The id insert_one gives the credential a request creates; the store of
\* the model holds at most one created credential.
inserted_id == "c3"

\* A lookup that leaves the owner out of the query.
get_credential_by_any_owner(credentials, user_id, field, value) ==
    {c \in credentials : c[field] = value /\ ~c.is_deleted}

\* CredentialRepository.get_credential:
\* find_one({**credential_query, 'user_id': user_id, 'is_deleted': False}).
get_credential_by(credentials, user_id, field, value) ==
    {c \in credentials :
        c[field] = value /\ c.user_id = user_id /\ ~c.is_deleted}

\* CredentialRepository.update_credential: update_one on _id and user_id.
update_credential_by_id(credentials, user_id, id, body) ==
    {IF c.id = id /\ c.user_id = user_id
     THEN [c EXCEPT !.title = body.title] ELSE c : c \in credentials}

\* CredentialRepository.delete_credential: the soft delete.
delete_credential_by_id(credentials, user_id, id) ==
    {IF c.id = id /\ c.user_id = user_id
     THEN [c EXCEPT !.is_deleted = TRUE] ELSE c : c \in credentials}

\* What every credential route does before its own work: the gate, the
\* ownership check, then CredentialService.get_user_data.  A response when
\* one of them ends the request, NoResponse when the route goes on.
credential_guard(req, t, db, route) ==
    LET user == JWTBearer(req.authorization, t) IN
    IF user.status # 200
    THEN Resp(user.status, user.detail, "JWTBearer")
    ELSE IF ~allow_access(req.id, user.payload)
    THEN Resp(401, "Unauthorised action", "authorize")
    ELSE IF ~db.up
    THEN Resp(500, "Error in credential route", route)
    ELSE IF get_user_by(db.users, "id", req.id) = {}
    THEN Resp(404, "User not found", "get_user_data")
    ELSE NoResponse

\* POST /api/credential/{user_id}/user
create_credential(req, t, db) ==
    LET guard == credential_guard(req, t, db, "create_credential") IN
    IF guard # NoResponse THEN Returned(guard, db)
    ELSE Returned(Resp(200, "", "create_credential"),
            [db EXCEPT !.credentials =
                @ \cup {Credential(inserted_id, req.id, req.title,
                                    req.is_deleted)}])

\* GET /api/credential/{user_id}/user/{credential_id}
get_credential(req, t, db) ==
    LET guard == credential_guard(req, t, db, "get_credential") IN
    IF guard # NoResponse THEN Returned(guard, db)
    ELSE IF get_credential_by(db.credentials, req.id, "id",
                              req.credential_id) = {}
    THEN Returned(Resp(404, "Credential not found", "get_credential"), db)
    ELSE Returned(Resp(200, "", "get_credential"), db)

\* GET /api/credential/{user_id}/user/{title}/title
get_credential_by_title(req, t, db) ==
    LET guard == credential_guard(req, t, db, "get_credential_by_title") IN
    IF guard # NoResponse THEN Returned(guard, db)
    ELSE IF get_credential_by(db.credentials, req.id, "title", req.title) = {}
    THEN Returned(Resp(404, "Credential not found",
                       "get_credential_by_title"), db)
    ELSE Returned(Resp(200, "", "get_credential_by_title"), db)

\* GET /api/credential/{user_id}/user
get_all_credentials(req, t, db) ==
    LET guard == credential_guard(req, t, db, "get_all_credentials") IN
    IF guard # NoResponse THEN Returned(guard, db)
    ELSE Returned(Resp(200, "", "get_all_credentials"), db)

\* PUT /api/credential/{user_id}/user/{credential_id}/update
update_credential(req, t, db) ==
    LET guard == credential_guard(req, t, db, "update_credential") IN
    IF guard # NoResponse THEN Returned(guard, db)
    ELSE IF get_credential_by(db.credentials, req.id, "id",
                              req.credential_id) = {}
    THEN Returned(Resp(404, "Credential not found", "update_credential"), db)
    ELSE Returned(Resp(200, "", "update_credential"),
            [db EXCEPT !.credentials =
                update_credential_by_id(@, req.id, req.credential_id, req)])

\* DELETE /api/credential/{user_id}/user/{credential_id}/delete
delete_credential(req, t, db) ==
    LET guard == credential_guard(req, t, db, "delete_credential") IN
    IF guard # NoResponse THEN Returned(guard, db)
    ELSE IF get_credential_by(db.credentials, req.id, "id",
                              req.credential_id) = {}
    THEN Returned(Resp(404, "Credential not found", "delete_credential"), db)
    ELSE Returned(Resp(200, "", "delete_credential"),
            [db EXCEPT !.credentials =
                delete_credential_by_id(@, req.id, req.credential_id)])

\* include_router: the route a request is dispatched to.
RouteHandler(req, t, db) ==
    CASE req.route = "login" -> login(req, t, db)
      [] req.route = "create_user" -> create_user(req, t, db)
      [] req.route = "get_user_by_id" -> get_user_by_id(req, t, db)
      [] req.route = "update_user_by_id" -> update_user_by_id(req, t, db)
      [] req.route = "delete_user_by_id" -> delete_user_by_id(req, t, db)
      [] req.route = "get_all_user" -> get_all_user(req, t, db)
      [] req.route = "me" -> me(req, t, db)
      [] req.route = "create_credential" -> create_credential(req, t, db)
      [] req.route = "get_credential" -> get_credential(req, t, db)
      [] req.route = "get_credential_by_title" ->
            get_credential_by_title(req, t, db)
      [] req.route = "get_all_credentials" -> get_all_credentials(req, t, db)
      [] req.route = "update_credential" -> update_credential(req, t, db)
      [] req.route = "delete_credential" -> delete_credential(req, t, db)

\* The routes whose path names the owner of the resource.
ScopedRoutes ==
    {"get_user_by_id", "update_user_by_id", "delete_user_by_id",
     "create_credential", "get_credential", "get_credential_by_title",
     "get_all_credentials", "update_credential", "delete_credential"}

\* ----------------------------------------------------------- requests ----
NoRequest ==
    [method |-> "", route |-> "", id |-> "", authorization |-> NoAuthorization,
     host |-> "", x_transaction_id |-> None, username |-> "", password |-> "",
     credential_id |-> "", title |-> "", is_deleted |-> FALSE]

\* A request to one of the routes that take a user id, a credential id and
\* a body.
Call(method, route, id, credential_id, authorization) ==
    [NoRequest EXCEPT !.method = method, !.route = route, !.id = id,
        !.credential_id = credential_id, !.authorization = authorization,
        !.host = "1.2.3.4", !.username = "carol", !.title = "t9"]

Get(id, authorization, host, xtid) ==
    [NoRequest EXCEPT !.method = "GET", !.route = "get_user_by_id", !.id = id,
        !.authorization = authorization, !.host = host,
        !.x_transaction_id = xtid]

Login(username, password, host, xtid) ==
    [NoRequest EXCEPT !.method = "POST", !.route = "login",
        !.username = username, !.password = password, !.host = host,
        !.x_transaction_id = xtid]

CreateUser(username, password) ==
    [NoRequest EXCEPT !.method = "POST", !.route = "create_user",
        !.username = username, !.password = password, !.host = "1.2.3.4"]

\* Tokens a client can hold: issued for u1 and for u2, one whose exp has
\* passed, and one signed with another key.
TokenU1 == Jwt("u1", SECRET_KEY, 0)
TokenU2 == Jwt("u2", SECRET_KEY, 0)
ExpiredToken == Jwt("u1", SECRET_KEY, 0 - 1)
ForgedToken == Jwt("u1", "other-key", 0)

\* The requests of one address without a token, a read and a creation:
\* the load on one counter.
LimiterMenu ==
    { Get("u1", NoAuthorization, "1.2.3.4", None),
      Login("alice", "Pw1", "1.2.3.4", None) }

\* Requests that differ in how the limiter resolves their identity.
IdentityMenu ==
    { Get("u1", NoAuthorization, "1.2.3.4", None),
      Get("u1", Bearer(TokenU1), "1.2.3.4", None),
      Get("u2", Bearer(TokenU1), "5.6.7.8", None),
      Get("u2", Bearer(TokenU2), "1.2.3.4", None),
      Get("u1", Bearer(ForgedToken), "1.2.3.4", None),
      Get("u1", Bearer(ExpiredToken), "1.2.3.4", None),
      Get("u1", [scheme |-> "bearer", credentials |-> TokenU1], "1.2.3.4", None) }

\* Both, for the limiter serving one request at a time.
SeqMenu == LimiterMenu \cup IdentityMenu

\* Requests that differ in the X-Transaction-ID header they supply.
TxMenu ==
    { Get("u1", NoAuthorization, "1.2.3.4", None),
      Get("u1", NoAuthorization, "1.2.3.4", "A"),
      Get("u1", NoAuthorization, "1.2.3.4", "") }

\* A token a login at time 0 issues to u1, and a token signed with the
\* service's key that carries no exp claim.
IssuedToken ==
    create_access_token([id |-> "u1", aud |-> None], NoExpiresDelta, 0)
NoExpToken == JwtClaims("u1", None, SECRET_KEY, 0, FALSE)

\* The routes behind the gate, and the method of each.
ProtectedRoutes == ScopedRoutes \cup {"get_all_user", "me"}

MethodOf(route) ==
    CASE route \in {"create_credential"} -> "POST"
      [] route \in {"update_user_by_id", "update_credential"} -> "PUT"
      [] route \in {"delete_user_by_id", "delete_credential"} -> "DELETE"
      [] OTHER -> "GET"

\* What a client can put into the Authorization header.
Authorizations ==
    { NoAuthorization, Bearer(TokenU1), Bearer(TokenU2), Bearer(IssuedToken),
      Bearer(ForgedToken), Bearer(ExpiredToken), Bearer(JunkToken),
      Bearer(NoExpToken) }

\* Every protected route, addressed to the live user, the soft-deleted user
\* and a user that never existed, with every header; and a login.
RouteMenu ==
    { Call(MethodOf(route), route, id, credential_id, authorization) :
        route \in ProtectedRoutes, id \in {"u1", "u2", "u3"},
        credential_id \in {"c1", "c2"}, authorization \in Authorizations }
    \cup { Login("alice", "Pw1", "1.2.3.4", None) }

\* One request for each way a route answers.
AppMenu ==
    { Get("u1", NoAuthorization, "1.2.3.4", None),
      Get("u1", Bearer(TokenU1), "1.2.3.4", "A"),
      Get("u2", Bearer(TokenU1), "1.2.3.4", "A"),
      Get("u2", Bearer(TokenU2), "1.2.3.4", None),
      Login("alice", "Pw1", "1.2.3.4", "A"),
      Login("alice", "pw", "1.2.3.4", None) }

\* What one principal asks of the protected routes on its own path: the
\* routes without a credential once, the routes with a credential id for
\* its own and for the other user's credential, the route with a title for
\* each title a credential can have.
OwnCalls(id, authorization) ==
    { Call(MethodOf(route), route, id, "c1", authorization) :
        route \in {"get_user_by_id", "update_user_by_id", "delete_user_by_id",
                   "get_all_user", "me", "create_credential",
                   "get_all_credentials"} }
    \cup { Call(MethodOf(route), route, id, credential_id, authorization) :
             route \in {"get_credential", "update_credential",
                        "delete_credential"},
             credential_id \in {"c1", "c2"} }
    \cup { [Call("GET", "get_credential_by_title", id, "c1", authorization)
              EXCEPT !.title = title] : title \in {"t1", "t2", "t9"} }

\* The life of an account: logins with every pairing of username and
\* password, the calls of u1 and of the soft-deleted u2, and, while the
\* store has no created user yet, the creation of a user with a fresh, a
\* taken and a deleted user's username.
AccountsMenu(users) ==
    { Login(username, password, "1.2.3.4", None) :
        username \in {"alice", "bob", "carol"},
        password \in {"Pw1", "Pw2", "Pw3"} }
    \cup OwnCalls("u1", Bearer(IssuedToken))
    \cup OwnCalls("u2", Bearer(TokenU2))
    \cup (IF \E u \in users : u.id = inserted_user_id THEN {}
          ELSE { CreateUser(username, "Pw3") :
                    username \in {"alice", "bob", "carol"} })

\* Requests that meet a store that does not answer: counted by address,
\* counted by principal, not counted, and on a route without a try.
FaultMenu ==
    { Get("u1", NoAuthorization, "1.2.3.4", None),
      Get("u1", Bearer(TokenU1), "1.2.3.4", "A"),
      Get("u1", Bearer(ForgedToken), "1.2.3.4", None),
      Login("alice", "Pw1", "1.2.3.4", None) }

\* ------------------------------------------------------ counter store ----
redis_key(rate_limit_identifier) == "ratelimit:" \o rate_limit_identifier

Identities == {"u1", "u2", "1.2.3.4", "5.6.7.8"}
Keys == {redis_key(i) : i \in Identities}

\* A key of the store: its integer value and its TTL as the TTL command
\* reports it: -2 the key does not exist, -1 it exists and never expires,
\* otherwise the seconds left.
Absent == [count |-> 0, ttl |-> 0 - 2]

\* GET: None (nil) or the stored value.
redis_get(store, key) ==
    IF store[key] = Absent
    THEN [nil |-> TRUE, value |-> 0]
    ELSE [nil |-> FALSE, value |-> store[key].count]

\* SET key value EX seconds: overwrites the value and the expiry.
redis_set(store, key, value, ex) ==
    [store EXCEPT ![key] = [count |-> value, ttl |-> ex]]

\* INCR: creates a missing key at 0 first, without an expiry; an existing
\* key keeps its expiry.
redis_incr(store, key) ==
    IF store[key] = Absent
    THEN [store EXCEPT ![key] = [count |-> 1, ttl |-> 0 - 1]]
    ELSE [store EXCEPT ![key].count = @ + 1]

redis_ttl(store, key) == store[key].ttl

\* One second passes in the store: keys lose a second and expire at zero.
redis_tick(store) ==
    [k \in Keys |->
        IF store[k].ttl = 1 THEN Absent
        ELSE IF store[k].ttl > 1 THEN [store[k] EXCEPT !.ttl = @ - 1]
        ELSE store[k]]

\* ------------------------------------------------------------ limiter ----
method_class(method) == IF method = "POST" THEN "post" ELSE "other"

\* A limiter with the looser threshold for every method.
RATE_LIMIT_uniform(method) == RATE_LIMIT_OTHER

\* RATE_LIMIT = RATE_LIMIT_POST if request.method == "POST" else RATE_LIMIT_OTHER
RATE_LIMIT(method) ==
    IF method = "POST" THEN RATE_LIMIT_POST ELSE RATE_LIMIT_OTHER

\* A limiter that keys every counted request by its address.
rate_limit_identifier_by_host(req, t) ==
    IF StripBearer(req.authorization).kind = "empty" THEN req.host
    ELSE IF verify_token(StripBearer(req.authorization), t) = NoPayload
    THEN None
    ELSE req.host

\* The identity the limiter counts a request under; None when the request
\* carries a token that verify_token rejects: dispatch then calls the next
\* stage at once and touches no counter.
rate_limit_identifier_of(req, t) ==
    LET token == StripBearer(req.authorization) IN
    IF token.kind = "empty" THEN req.host
    ELSE verify_token(token, t).id

\* A comparison that lets the request at the limit through as well.
below_limit_inclusive(count, limit) == count <= limit

\* elif int(current_count) < RATE_LIMIT
below_limit(count, limit) == count < limit

\* A limiter that counts the requests it rejects as well.
dispatch_write_counting_rejections(store, key, reply, limit) ==
    IF reply.nil THEN redis_set(store, key, 1, WINDOW)
    ELSE redis_incr(store, key)

\* What dispatch writes to the store after the reply of redis.get: set for
\* None, incr for a count below the limit, and nothing for a count at the
\* limit, where it only reads the TTL.
dispatch_write(store, key, reply, limit) ==
    IF reply.nil THEN redis_set(store, key, 1, WINDOW)
    ELSE IF below_limit(reply.value, limit) THEN redis_incr(store, key)
    ELSE store

\* ------------------------------------------------- correlation context ----
\* One context for the whole process, as a module-level variable would be.
SharedContext(task) == 1

\* The context a ContextVar is read and written in: every request is served
\* in a task of its own, and a task's context is its own copy.
Context(task) == task

\* uuid.uuid4(): distinct for the requests in flight.
uuid4(task) == "uuid-" \o ToString(task)

\* A variable declared without default=None: get() raises LookupError where
\* nothing was bound.
get_transaction_id_no_default(var, task) ==
    IF var[Context(task)] = None THEN "<LookupError>"
    ELSE IF var[Context(task)] = "" THEN "no-transaction"
    ELSE var[Context(task)]

\* get_transaction_id: transaction_id_var.get() or "no-transaction"
get_transaction_id(var, task) ==
    IF var[Context(task)] = None \/ var[Context(task)] = ""
    THEN "no-transaction"
    ELSE var[Context(task)]

\* set_transaction_id: the id it binds (and returns).
set_transaction_id(transaction_id, task) ==
    IF transaction_id = None THEN uuid4(task) ELSE transaction_id

\* ----------------------------------------------------------- pipeline ----
\* The middleware of the application, outermost first.  main.py installs
\* the CORS middleware alone.
user_middleware == <<"CORSMiddleware">>

\* The order the design declares: correlation context, then rate limiter.
declared_middleware == <<"TransactionIdMiddleware", "RateLimitMiddleware">>

\* The correlation middleware installed alone.
correlation_only == <<"TransactionIdMiddleware">>

Installed(stack, name) == \E i \in DOMAIN stack : stack[i] = name

\* -------------------------------------------------------------- state ----
VARIABLES
    pc,                     \* where each task's request stands
    request,                \* the request a task serves
    rate_limit_identifier,  \* dispatch's local: the identity it resolved
    current_count,          \* dispatch's local: the reply of redis.get
    response,               \* the response on its way out
    transaction_id_var,     \* the ContextVar's value in each context
    redis,                  \* the counter store
    now,                    \* the clock
    user_collection,        \* the users of the document store
    admitted,               \* history: requests let through per key and
                            \*   method class since the key's record began
    credential_collection,  \* the credentials of the document store
    unavailable,            \* the stores that do not answer
    outage,                 \* history: the requests that arrived in the
                            \*   present outage of the counter store, and
                            \*   how the limiter has ended such requests
    log_record,             \* the last record a log handler has emitted
    issued                  \* the last call of create_access_token

vars ==
    <<pc, request, rate_limit_identifier, current_count, response,
      transaction_id_var, redis, now, user_collection, admitted,
      credential_collection, unavailable, outage, log_record, issued>>

\* The contexts a ContextVar lives in: one per task, and context 0 for code
\* that runs outside every request.
Contexts == 0..MaxTasks

Stores == {"redis", "mongo"}

NoOutage == [arrived |-> {}, outcomes |-> {}]
NoRecord == [emitted |-> FALSE, context |-> 0, transaction_id |-> None]
NoIssue ==
    [called |-> FALSE, data |-> [id |-> None, aud |-> None],
     expires_delta |-> NoExpiresDelta, at |-> 0, token |-> EmptyToken]

\* The claim maps create_access_token is called with: the id, and the
\* registered claim aud when it is not None.
ClaimMaps == {[id |-> i, aud |-> a] : i \in {"u1", "u2"}, a \in {None, "app"}}

\* The durations it is called with: none, zero, and one that is not the
\* default.
ExpiresDeltas ==
    {NoExpiresDelta, timedelta(0), timedelta(ACCESS_TOKEN_EXPIRE_MINUTES + 1)}

\* The response of Starlette's ServerErrorMiddleware to an exception that
\* leaves the application: it is built outside every user middleware.
ServerError == Resp(500, "Internal Server Error", "ServerErrorMiddleware")

\* TransactionIdInjecter.filter: the id a log record carries.
TransactionIdInjecter_filter(var, context) ==
    IF get_transaction_id(var, context) \in {None, ""}
    THEN "no-transaction"
    ELSE get_transaction_id(var, context)

NoReply == [nil |-> TRUE, value |-> 0]
NoneAdmitted == [post |-> 0, other |-> 0]

Init ==
    /\ pc = [t \in Tasks |-> "idle"]
    /\ request = [t \in Tasks |-> NoRequest]
    /\ rate_limit_identifier = [t \in Tasks |-> None]
    /\ current_count = [t \in Tasks |-> NoReply]
    /\ response = [t \in Tasks |-> NoResponse]
    /\ transaction_id_var = [c \in Contexts |-> None]
    /\ redis = [k \in Keys |-> Absent]
    /\ now = 0
    /\ user_collection = InitialUsers
    /\ admitted = [k \in Keys |-> NoneAdmitted]
    /\ credential_collection = InitialCredentials
    /\ unavailable = {}
    /\ outage = NoOutage
    /\ log_record = NoRecord
    /\ issued = NoIssue

InFlight == {t \in Tasks : pc[t] # "idle"}

\* The stage a response goes to once it exists.
Outbound(stack) ==
    IF Installed(stack, "TransactionIdMiddleware") THEN "stamp" ELSE "sent"

\* ------------------------------------------------------------ actions ----
\* A request of `menu` arrives while fewer than `limit_concurrency` are in
\* flight, and runs to its first await.  With the correlation middleware
\* installed that is TransactionIdMiddleware.dispatch up to call_next.
Receive(t, stack, menu, limit_concurrency) ==
    /\ pc[t] = "idle"
    /\ \A u \in Tasks : u < t => pc[u] # "idle"
    /\ Cardinality(InFlight) < limit_concurrency
    /\ \E req \in menu :
        /\ request' = [request EXCEPT ![t] = req]
        /\ IF Installed(stack, "TransactionIdMiddleware")
           THEN transaction_id_var' =
                   [transaction_id_var EXCEPT ![Context(t)] =
                       set_transaction_id(req.x_transaction_id, t)]
           ELSE UNCHANGED transaction_id_var
    /\ pc' = [pc EXCEPT ![t] =
                IF Installed(stack, "RateLimitMiddleware")
                THEN "rate_limit" ELSE "handler"]
    /\ outage' = IF "redis" \in unavailable
                 THEN [outage EXCEPT !.arrived = @ \cup {t}]
                 ELSE outage
    /\ UNCHANGED <<rate_limit_identifier, current_count, response, redis, now,
                   user_collection, admitted, credential_collection,
                   unavailable, log_record, issued>>

\* How the limiter ended a request that arrived in the present outage.
Ended(t, outcome) ==
    IF t \in outage.arrived
    THEN [outage EXCEPT !.outcomes = @ \cup {outcome}]
    ELSE outage

\* RateLimitMiddleware.dispatch up to the reply of redis.get; with the
\* store unreachable the call raises, nothing in dispatch catches it, and
\* the exception leaves every middleware.
RateLimitGet(t) ==
    /\ pc[t] = "rate_limit"
    /\ LET identifier == rate_limit_identifier_of(request[t], now) IN
       IF identifier = None
       THEN /\ pc' = [pc EXCEPT ![t] = "handler"]
            /\ outage' = Ended(t, "allowed")
            /\ UNCHANGED <<rate_limit_identifier, current_count, response>>
       ELSE IF "redis" \in unavailable
       THEN /\ response' = [response EXCEPT ![t] = ServerError]
            /\ pc' = [pc EXCEPT ![t] = "sent"]
            /\ outage' = Ended(t, "error")
            /\ UNCHANGED <<rate_limit_identifier, current_count>>
       ELSE /\ rate_limit_identifier' =
                  [rate_limit_identifier EXCEPT ![t] = identifier]
            /\ current_count' = [current_count EXCEPT ![t] =
                  redis_get(redis, redis_key(identifier))]
            /\ pc' = [pc EXCEPT ![t] = "redis_reply"]
            /\ UNCHANGED <<response, outage>>
    /\ UNCHANGED <<request, transaction_id_var, redis, now,
                   user_collection, admitted, credential_collection,
                   unavailable, log_record, issued>>

\* RateLimitMiddleware.dispatch from the reply of redis.get on: set, incr or
\* ttl with the 429 response.
RateLimitDecide(t, stack) ==
    /\ pc[t] = "redis_reply"
    /\ "redis" \notin unavailable
    /\ LET key == redis_key(rate_limit_identifier[t])
           class == method_class(request[t].method)
           allow == current_count[t].nil
                    \/ below_limit(current_count[t].value,
                                   RATE_LIMIT(request[t].method))
       IN
       /\ redis' = dispatch_write(redis, key, current_count[t],
                                  RATE_LIMIT(request[t].method))
       /\ response' = IF allow THEN response
                      ELSE [response EXCEPT ![t] =
                              [Resp(429, "Rate limit exceeded",
                                    "RateLimitMiddleware")
                               EXCEPT !.retry = redis_ttl(redis, key)]]
       /\ pc' = [pc EXCEPT ![t] = IF allow THEN "handler" ELSE Outbound(stack)]
       /\ admitted' = IF allow
                      THEN [admitted EXCEPT ![key][class] = @ + 1]
                      ELSE admitted
    /\ UNCHANGED <<request, rate_limit_identifier, current_count,
                   transaction_id_var, now, user_collection,
                   credential_collection, unavailable, outage, log_record,
                   issued>>

\* The same point of dispatch with the store unreachable: redis.set,
\* redis.incr and redis.ttl all raise.
RateLimitRaise(t) ==
    /\ pc[t] = "redis_reply"
    /\ "redis" \in unavailable
    /\ response' = [response EXCEPT ![t] = ServerError]
    /\ pc' = [pc EXCEPT ![t] = "sent"]
    /\ outage' = Ended(t, "error")
    /\ UNCHANGED <<request, rate_limit_identifier, current_count,
                   transaction_id_var, redis, now, user_collection, admitted,
                   credential_collection, unavailable, log_record, issued>>

\* The route with its dependencies: JWTBearer, authorize, the handler body.
Handler(t, stack) ==
    /\ pc[t] = "handler"
    /\ LET result == RouteHandler(request[t], now,
                         Db(user_collection, credential_collection,
                            "mongo" \notin unavailable))
       IN
       /\ response' = [response EXCEPT ![t] =
                          IF result.raised THEN ServerError
                          ELSE result.response]
       /\ pc' = [pc EXCEPT ![t] =
                    IF result.raised THEN "sent" ELSE Outbound(stack)]
       /\ user_collection' = result.users
       /\ credential_collection' = result.credentials
    /\ UNCHANGED <<request, rate_limit_identifier, current_count,
                   transaction_id_var, redis, now, admitted, unavailable,
                   outage, log_record, issued>>

\* TransactionIdMiddleware.dispatch after call_next.
Stamp(t) ==
    /\ pc[t] = "stamp"
    /\ response' = [response EXCEPT ![t].x_transaction_id =
                       get_transaction_id(transaction_id_var, t)]
    /\ pc' = [pc EXCEPT ![t] = "sent"]
    /\ UNCHANGED <<request, rate_limit_identifier, current_count,
                   transaction_id_var, redis, now, user_collection,
                   admitted, credential_collection, unavailable, outage,
                   log_record, issued>>

\* The response is on the wire and the task ends, its context with it.
Close(t) ==
    /\ pc[t] = "sent"
    /\ pc' = [pc EXCEPT ![t] = "idle"]
    /\ request' = [request EXCEPT ![t] = NoRequest]
    /\ rate_limit_identifier' = [rate_limit_identifier EXCEPT ![t] = None]
    /\ current_count' = [current_count EXCEPT ![t] = NoReply]
    /\ response' = [response EXCEPT ![t] = NoResponse]
    /\ transaction_id_var' = [transaction_id_var EXCEPT ![Context(t)] = None]
    /\ outage' = [outage EXCEPT !.arrived = @ \ {t}]
    /\ UNCHANGED <<redis, now, user_collection, admitted,
                   credential_collection, unavailable, log_record, issued>>

\* A second passes.
Tick ==
    /\ now' = IF now < MaxTime THEN now + 1 ELSE now
    /\ redis' = redis_tick(redis)
    /\ admitted' = [k \in Keys |->
                      IF redis'[k] = Absent THEN NoneAdmitted ELSE admitted[k]]
    /\ UNCHANGED <<pc, request, rate_limit_identifier, current_count, response,
                   transaction_id_var, user_collection, credential_collection,
                   unavailable, outage, log_record, issued>>

\* A store stops answering.
Fail(store) ==
    /\ store \notin unavailable
    /\ unavailable' = unavailable \cup {store}
    /\ UNCHANGED <<pc, request, rate_limit_identifier, current_count, response,
                   transaction_id_var, redis, now, user_collection, admitted,
                   credential_collection, outage, log_record, issued>>

\* A store answers again.
Restore(store) ==
    /\ store \in unavailable
    /\ unavailable' = unavailable \ {store}
    /\ outage' = IF store = "redis" THEN NoOutage ELSE outage
    /\ UNCHANGED <<pc, request, rate_limit_identifier, current_count, response,
                   transaction_id_var, redis, now, user_collection, admitted,
                   credential_collection, log_record, issued>>

\* A log handler emits a record from a context: a request's task, or code
\* outside every request.
Log(context) ==
    /\ log_record' = [emitted |-> TRUE, context |-> context,
                      transaction_id |->
                          TransactionIdInjecter_filter(transaction_id_var,
                                                       context)]
    /\ UNCHANGED <<pc, request, rate_limit_identifier, current_count, response,
                   transaction_id_var, redis, now, user_collection, admitted,
                   credential_collection, unavailable, outage, issued>>

\* create_access_token is called with a claim map and a duration.
Issue(data, expires_delta) ==
    /\ issued' = [called |-> TRUE, data |-> data,
                  expires_delta |-> expires_delta, at |-> now,
                  token |-> create_access_token(data, expires_delta, now)]
    /\ UNCHANGED <<pc, request, rate_limit_identifier, current_count, response,
                   transaction_id_var, redis, now, user_collection, admitted,
                   credential_collection, unavailable, outage, log_record>>

\* ----------------------------------------------------- specifications ----
\* The declared pipeline under concurrent load on one counter.
Next ==
    \/ \E t \in Tasks :
        \/ Receive(t, declared_middleware, LimiterMenu, MaxTasks)
        \/ RateLimitGet(t)
        \/ RateLimitDecide(t, declared_middleware)
        \/ Handler(t, declared_middleware)
        \/ Stamp(t)
        \/ Close(t)
    \/ Tick

Spec == Init /\ [][Next]_vars

\* The declared pipeline serving one request at a time.
NextSeq ==
    \/ \E t \in Tasks :
        \/ Receive(t, declared_middleware, SeqMenu, 1)
        \/ RateLimitGet(t)
        \/ RateLimitDecide(t, declared_middleware)
        \/ Handler(t, declared_middleware)
        \/ Stamp(t)
        \/ Close(t)
    \/ Tick

SpecSeq == Init /\ [][NextSeq]_vars

\* The correlation middleware around the routes, under concurrent requests.
NextTx ==
    \/ \E t \in Tasks :
        \/ Receive(t, correlation_only, TxMenu, MaxTasks)
        \/ Handler(t, correlation_only)
        \/ Stamp(t)
        \/ Close(t)
    \/ Tick

SpecTx == Init /\ [][NextTx]_vars

\* The application as main.py builds it.
NextApp ==
    \/ \E t \in Tasks :
        \/ Receive(t, user_middleware, AppMenu, MaxTasks)
        \/ Handler(t, user_middleware)
        \/ Close(t)
    \/ Tick

SpecApp == Init /\ [][NextApp]_vars

\* The application as main.py builds it, one request at a time, on every
\* route.
NextRoutes ==
    \/ \E t \in Tasks :
        \/ Receive(t, user_middleware, RouteMenu, 1)
        \/ Handler(t, user_middleware)
        \/ Close(t)
    \/ Tick

SpecRoutes == Init /\ [][NextRoutes]_vars

\* The application as main.py builds it, and calls of create_access_token
\* with the claim maps of ClaimMaps besides those of its logins.
NextCodec ==
    \/ \E t \in Tasks :
        \/ Receive(t, user_middleware, AppMenu, 1)
        \/ Handler(t, user_middleware)
        \/ Close(t)
    \/ \E data \in ClaimMaps, expires_delta \in ExpiresDeltas :
        Issue(data, expires_delta)
    \/ Tick

SpecCodec == Init /\ [][NextCodec]_vars

\* The application as main.py builds it, one request at a time, over the
\* life of the accounts.
NextAccounts ==
    \/ \E t \in Tasks :
        \/ Receive(t, user_middleware, AccountsMenu(user_collection), 1)
        \/ Handler(t, user_middleware)
        \/ Close(t)
    \/ Tick

SpecAccounts == Init /\ [][NextAccounts]_vars

\* The declared pipeline, one request at a time, with stores that fail and
\* come back.
NextFault ==
    \/ \E t \in Tasks :
        \/ Receive(t, declared_middleware, FaultMenu, 1)
        \/ RateLimitGet(t)
        \/ RateLimitDecide(t, declared_middleware)
        \/ RateLimitRaise(t)
        \/ Handler(t, declared_middleware)
        \/ Stamp(t)
        \/ Close(t)
    \/ \E store \in Stores :
        \/ Fail(store)
        \/ Restore(store)
    \/ Tick

SpecFault == Init /\ [][NextFault]_vars

\* The correlation middleware under concurrent requests, with log records
\* emitted inside and outside requests.
NextLog ==
    \/ \E t \in Tasks :
        \/ Receive(t, correlation_only, TxMenu, MaxTasks)
        \/ Handler(t, correlation_only)
        \/ Stamp(t)
        \/ Close(t)
    \/ \E context \in Contexts : Log(context)
    \/ Tick

SpecLog == Init /\ [][NextLog]_vars

\* ------------------------------------------------------------- claims ----
PastLimiter(t) == pc[t] \in {"handler", "stamp", "sent"}

\* A token that verify_token rejects from the start (and so at every time).
NeverVerifies(token) ==
    token.kind # "empty" /\ verify_token(token, 0) = NoPayload

OtherClass(class) == IF class = "post" THEN "other" ELSE "post"

\* The record of t's key is still what redis.get reported to t.
ReplyCurrent(t) ==
    current_count[t] = redis_get(redis, redis_key(rate_limit_identifier[t]))

\* C1: of the requests of one identity and one method class that run
\* concurrently within one window, the limiter lets through at most the
\* limit of the class, whatever the interleaving of their store operations.
C1_NeverMoreThanLimit ==
    \A k \in Keys :
        /\ admitted[k].post <= RATE_LIMIT_POST
        /\ admitted[k].other <= RATE_LIMIT_OTHER

\* C2: served one after the other within one window, a request of a class is
\* let through iff fewer than limit(class) requests of that class were let
\* through since the record began (absent at first), and is otherwise
\* answered 429: the first `limit` pass and the next is rejected.
C2_LimitThenReject ==
    [][\A t \in Tasks :
        (/\ pc[t] = "redis_reply"
         /\ pc'[t] # "redis_reply"
         /\ ReplyCurrent(t)
         /\ admitted[redis_key(rate_limit_identifier[t])]
                    [OtherClass(method_class(request[t].method))] = 0)
        => /\ (pc'[t] = "handler") <=>
                (admitted[redis_key(rate_limit_identifier[t])]
                         [method_class(request[t].method)]
                    < RATE_LIMIT(request[t].method))
           /\ (pc'[t] # "handler") =>
                (response'[t].status = 429 /\ pc'[t] = "stamp")]_vars

\* The (limit+1)-th read of a window has been answered 429.
C2_Witness ==
    \E t \in Tasks :
        /\ response[t].status = 429
        /\ request[t].method = "GET"
        /\ rate_limit_identifier[t] # None
        /\ admitted[redis_key(rate_limit_identifier[t])].other = RATE_LIMIT_OTHER
        /\ admitted[redis_key(rate_limit_identifier[t])].post = 0
        /\ ReplyCurrent(t)

\* C3: a counter record that blocks an identity (its count has reached the
\* limit) carries an expiry of at most WINDOW seconds, so that it is absent
\* again once the window has elapsed and the identity is allowed again.
C3_BlockingRecordExpires ==
    \A k \in Keys :
        (redis[k] # Absent /\ ~below_limit(redis[k].count, RATE_LIMIT_OTHER))
        => redis[k].ttl \in 1..WINDOW

\* C4: every 429 carries a retry hint that is the remaining TTL of the
\* record: positive and at most WINDOW.
C4_RetryHintPositive ==
    \A t \in Tasks :
        response[t].status = 429 => response[t].retry \in 1..WINDOW

\* C5: a request whose bearer token does not verify is counted by the
\* limiter under the caller's address.
C5_InvalidTokenCountedByAddress ==
    \A t \in Tasks :
        (PastLimiter(t) /\ NeverVerifies(request[t].authorization.credentials))
        => rate_limit_identifier[t] = request[t].host

\* C6: the limiter answers only 429; a request whose token does not verify
\* is answered by the auth gate of its (protected) route, with 403.
C6_AuthenticationLeftToGate ==
    \A t \in Tasks :
        /\ response[t].by = "RateLimitMiddleware" => response[t].status = 429
        /\ (NeverVerifies(request[t].authorization.credentials)
            /\ response[t] # NoResponse)
           => (response[t].by = "JWTBearer" /\ response[t].status = 403)

\* A request with a forged or expired token got its 403 from the gate.
C6_Witness ==
    \E t \in Tasks :
        /\ NeverVerifies(request[t].authorization.credentials)
        /\ pc[t] = "sent"
        /\ response[t].by = "JWTBearer"
        /\ response[t].status = 403

OwnId(t) ==
    IF request[t].x_transaction_id = None THEN uuid4(t)
    ELSE IF request[t].x_transaction_id = "" THEN "no-transaction"
    ELSE request[t].x_transaction_id

\* C8: while requests run concurrently, get_transaction_id gives each the
\* id resolved from its own header, its response carries that id, and an id
\* another request supplied never appears in its response.
C8_OwnIdOnly ==
    \A t \in Tasks :
        pc[t] # "idle"
        => /\ get_transaction_id(transaction_id_var, t) = OwnId(t)
           /\ pc[t] = "sent" => response[t].x_transaction_id = OwnId(t)
           /\ \A u \in Tasks :
                (/\ pc[u] # "idle"
                 /\ request[u].x_transaction_id # None
                 /\ request[u].x_transaction_id # request[t].x_transaction_id)
                => response[t].x_transaction_id # request[u].x_transaction_id

\* A request without the header has its generated id on its response while
\* a request that supplied "A" is still being served.
C8_Witness ==
    \E t, u \in Tasks :
        /\ request[t].x_transaction_id = "A"
        /\ pc[t] = "stamp"
        /\ request[u].method = "GET"
        /\ request[u].x_transaction_id = None
        /\ pc[u] = "sent"
        /\ response[u].x_transaction_id = uuid4(u)

\* C9: a supplied X-Transaction-ID, the empty string included, is the id
\* the request reads and the value of its response header; without the
\* header both are the generated id.
C9_SuppliedIdVerbatim ==
    \A t \in Tasks :
        pc[t] # "idle"
        => /\ get_transaction_id(transaction_id_var, t) =
                (IF request[t].x_transaction_id = None
                 THEN uuid4(t) ELSE request[t].x_transaction_id)
           /\ pc[t] = "sent" =>
                response[t].x_transaction_id =
                    (IF request[t].x_transaction_id = None
                     THEN uuid4(t) ELSE request[t].x_transaction_id)

\* C10: a rejection that is sent carries the X-Transaction-ID header.
C10_RejectionCarriesId ==
    \A t \in Tasks :
        (pc[t] = "sent" /\ response[t].status \in {401, 403, 404, 429})
        => response[t].x_transaction_id # None

\* C11: a response that reports a server error (the counter store raising
\* inside the limiter, an exception no route catches) leaves with the
\* X-Transaction-ID header, as every other response does.
C11_ErrorsCarryId ==
    \A t \in Tasks :
        (pc[t] = "sent" /\ response[t].status >= 500)
        => response[t].x_transaction_id # None

\* C20: the requests that arrive while the counter store is unreachable all
\* leave the limiter the same way: all allowed, or all ended with an error.
C20_OnePolicyInOutage ==
    Cardinality(outage.outcomes) <= 1

\* A context that belongs to no request: context 0, or a task that serves
\* none.
OutsideRequests(context) == context = 0 \/ pc[context] = "idle"

\* C12: read where no request has bound an id, get_transaction_id gives the
\* sentinel "no-transaction" (a value, not an exception), and a log record
\* emitted there carries the sentinel; read inside a request it gives, and a
\* log record emitted there carries, the id resolved for that request.
C12_SentinelOutsideRequests ==
    [][/\ \A context \in Contexts :
            OutsideRequests(context)
            => get_transaction_id(transaction_id_var, context)
                  = "no-transaction"
       /\ log_record' # log_record
          => /\ log_record'.emitted
             /\ IF OutsideRequests(log_record'.context)
                THEN log_record'.transaction_id = "no-transaction"
                ELSE log_record'.transaction_id = OwnId(log_record'.context)
      ]_vars

\* A record logged outside every request carries the sentinel while a
\* request that supplied "A" is being served.
C12_Witness ==
    /\ log_record.emitted
    /\ log_record.context = 0
    /\ log_record.transaction_id = "no-transaction"
    /\ \E t \in Tasks :
        /\ pc[t] = "stamp"
        /\ request[t].x_transaction_id = "A"
        /\ get_transaction_id(transaction_id_var, t) = "A"

\* The route of t's request runs in this step.
Handled(t) == pc[t] = "handler" /\ pc'[t] # "handler"

\* C13: on every protected route, a request without Authorization header or
\* with a token that verify_token rejects is answered by the gate (403) and
\* leaves the document store as it was; a response that comes from the route
\* itself belongs to a request whose token verify_token accepts.
C13_GateFailsClosed ==
    [][\A t \in Tasks :
        (Handled(t) /\ request[t].route \in ProtectedRoutes)
        => /\ (\/ request[t].authorization.scheme = ""
               \/ verify_token(request[t].authorization.credentials, now)
                    = NoPayload)
              => /\ response'[t].by = "JWTBearer"
                 /\ response'[t].status = 403
                 /\ user_collection' = user_collection
                 /\ credential_collection' = credential_collection
           /\ response'[t].by # "JWTBearer"
              => verify_token(request[t].authorization.credentials, now).id
                    = request[t].authorization.credentials.id
      ]_vars

\* A delete of u1 with a forged token of u1 was answered by the gate, and
\* u1 is still there.
C13_Witness ==
    \E t \in Tasks :
        /\ pc[t] = "sent"
        /\ request[t].route = "delete_user_by_id"
        /\ request[t].id = "u1"
        /\ request[t].authorization = Bearer(ForgedToken)
        /\ response[t].by = "JWTBearer"
        /\ get_user_by(user_collection, "id", "u1") # {}

\* C14: verify_token gives one and the same rejected value for a token
\* signed with another secret, an expired token, a string that is no token
\* and a missing token, and every rejection by the gate has the status and
\* the body of the rejection of a forged token.
C14_RejectionsIndistinguishable ==
    /\ \A token \in {ForgedToken, ExpiredToken, JunkToken, EmptyToken} :
        verify_token(token, now) = NoPayload
    /\ \A t \in Tasks :
        response[t].by = "JWTBearer"
        => /\ response[t].status
                = JWTBearer(Bearer(ForgedToken), now).status
           /\ response[t].detail
                = JWTBearer(Bearer(ForgedToken), now).detail

\* C15: for a request whose token is signed with the service's key and has
\* no exp claim, verify_token returns the rejected value, as it does for a
\* forged, an expired and a malformed token.
C15_AbsentExpRejected ==
    /\ \A token \in {ForgedToken, ExpiredToken, JunkToken} :
        verify_token(token, now) = NoPayload
    /\ \A t \in Tasks :
        (/\ pc[t] # "idle"
         /\ request[t].authorization.credentials.kind = "jwt"
         /\ request[t].authorization.credentials.key = SECRET_KEY
         /\ ~request[t].authorization.credentials.has_exp)
        => verify_token(request[t].authorization.credentials, now) = NoPayload

\* C16: on a protected route a bearer token gets past the gate iff it is
\* signed with the configured secret and its exp lies in the future: at and
\* after its exp it is rejected, and before its exp it is accepted whatever
\* the users and credentials of the store have become.
C16_ValidIffSignedAndUnexpired ==
    [][\A t \in Tasks :
        (/\ Handled(t)
         /\ request[t].route \in ProtectedRoutes
         /\ request[t].authorization.scheme = "Bearer")
        => ((response'[t].by # "JWTBearer")
            <=> (/\ request[t].authorization.credentials.kind = "jwt"
                 /\ request[t].authorization.credentials.key = SECRET_KEY
                 /\ request[t].authorization.credentials.has_exp
                 /\ request[t].authorization.credentials.exp > now))
      ]_vars

\* The token of the last create_access_token call has not reached the
\* expiry the call gave it.
BeforeExpiry == issued.called /\ now < issued.at + ACCESS_TOKEN_EXPIRE_MINUTES

\* verify_token gives back the claims the token was issued for, with an exp
\* that lies in the future.
RoundTrip ==
    /\ verify_token(issued.token, now).id = issued.data.id
    /\ verify_token(issued.token, now).aud = issued.data.aud
    /\ verify_token(issued.token, now).has_exp
    /\ verify_token(issued.token, now).exp > now

C19_StagesInDeclaredOrder ==
    [][\A t \in Tasks :
        /\ (pc[t] = "idle" /\ pc'[t] # "idle")
           => /\ pc'[t] = "rate_limit"
              /\ transaction_id_var'[Context(t)] # None
        /\ (pc[t] # "handler" /\ pc'[t] = "handler")
           => /\ pc[t] \in {"rate_limit", "redis_reply"}
              /\ transaction_id_var[Context(t)] # None
        /\ (pc[t] # "sent" /\ pc'[t] = "sent"
            /\ response'[t].by # "ServerErrorMiddleware")
           => pc[t] = "stamp"
      ]_vars

\* The users that are not deleted, hold the username of t's login and have
\* a digest that verify_password accepts the login's password against.
LoginMatches(t) ==
    {u \in user_collection :
        /\ ~u.is_deleted
        /\ u.username = request[t].username
        /\ verify_password(request[t].password, u.password)}

\* C21: a login is answered with a token iff a user that is not deleted
\* holds the username and verify_password accepts the password against that
\* user's digest, and the token's id claim is then the id of that user;
\* every other login is answered 401 without a token.
C21_LoginIffCredentialsMatch ==
    [][\A t \in Tasks :
        (Handled(t) /\ request[t].route = "login")
        => /\ (response'[t].status = 200) <=> (LoginMatches(t) # {})
           /\ (response'[t].status = 200)
              => \E u \in LoginMatches(t) :
                    response'[t].access_token.id = u.id
           /\ (response'[t].status # 200)
              => /\ response'[t].status = 401
                 /\ response'[t].access_token = EmptyToken
      ]_vars

\* C22: the count of every counter record is the number of requests of its
\* identity that the limiter has let through since the record began, under
\* every interleaving of the requests of one key.
C22_CountIsAllowedRequests ==
    \A k \in Keys :
        redis[k] # Absent
        => redis[k].count = admitted[k].post + admitted[k].other

\* C23: every counter record in the store expires, after at most WINDOW
\* seconds.
C23_EveryRecordExpires ==
    \A k \in Keys :
        redis[k] # Absent
        => (redis_ttl(redis, k) >= 1 /\ redis_ttl(redis, k) <= WINDOW)

\* C24: while a counter record exists its expiry is never moved away: a
\* request that is let through leaves the TTL as it is, and time only
\* shortens it.
C24_ExpiryNeverReset ==
    [][\A k \in Keys :
        (redis[k] # Absent /\ redis'[k] # Absent)
        => /\ redis_ttl(redis', k) <= redis_ttl(redis, k)
           /\ (redis'[k].count # redis[k].count)
              => redis_ttl(redis', k) = redis_ttl(redis, k)
      ]_vars

\* C25: a request the limiter rejects leaves the counter store as it was,
\* count and TTL, and goes back out with its 429: it never reaches the
\* route, and so neither the gate nor the document store.
C25_RejectionChangesNothing ==
    [][\A t \in Tasks :
        /\ (response[t].status # 429 /\ response'[t].status = 429)
           => /\ redis' = redis
              /\ pc'[t] # "handler"
              /\ user_collection' = user_collection
              /\ credential_collection' = credential_collection
        /\ (response[t].status = 429)
           => /\ pc'[t] # "handler"
              /\ response'[t].by \in {"RateLimitMiddleware", ""}
      ]_vars

\* A POST was rejected at the limit, and its counter record is still at the
\* limit with its expiry running.
C25_Witness ==
    \E t \in Tasks :
        /\ pc[t] = "sent"
        /\ response[t].status = 429
        /\ request[t].method = "POST"
        /\ redis[redis_key(rate_limit_identifier[t])].count = RATE_LIMIT_POST
        /\ redis_ttl(redis, redis_key(rate_limit_identifier[t])) >= 1

\* C26: the limiter keeps one record per identity and counts every method
\* into it: the count a request reads is the number of requests of its
\* identity let through in the window, of whatever method.  A POST is let
\* through iff the record it read is absent or that count is below the POST
\* threshold, a request of another method iff it is absent or the count is
\* below the looser threshold.
C26_OneCounterTwoThresholds ==
    [][\A t \in Tasks :
        (pc[t] = "redis_reply" /\ pc'[t] # "redis_reply")
        => LET key == redis_key(rate_limit_identifier[t])
               threshold == IF request[t].method = "POST"
                            THEN RATE_LIMIT_POST ELSE RATE_LIMIT_OTHER
           IN
           /\ (pc'[t] = "handler")
              <=> (current_count[t].nil \/ current_count[t].value < threshold)
           /\ (ReplyCurrent(t) /\ ~current_count[t].nil)
              => current_count[t].value
                    = admitted[key].post + admitted[key].other
      ]_vars

\* A POST was rejected although its identity had no POST let through in the
\* window: reads had used the POST quota up.
C26_Witness ==
    \E t \in Tasks :
        /\ pc[t] = "sent"
        /\ response[t].status = 429
        /\ request[t].method = "POST"
        /\ admitted[redis_key(rate_limit_identifier[t])].post = 0
        /\ admitted[redis_key(rate_limit_identifier[t])].other >= RATE_LIMIT_POST

\* C27: the token create_access_token makes expires at now + ttl for every
\* ttl the call passes, the zero duration included, and at now + the
\* configured default only when the call passes none.
C27_ExpiryIsNowPlusTtl ==
    issued.called
    => /\ issued.token.has_exp
       /\ issued.expires_delta.given
          => issued.token.exp = issued.at + issued.expires_delta.minutes
       /\ ~issued.expires_delta.given
          => issued.token.exp = issued.at + ACCESS_TOKEN_EXPIRE_MINUTES

\* The principal of t's request: the id claim of the token the gate
\* accepts, None when it accepts none.
Principal(t) == JWTBearer(request[t].authorization, now).payload.id

\* C28: a credential operation returns, updates and soft-deletes only
\* credentials whose user_id is the id of the principal, also when the
\* request names the id or the title of another user's credential: the
\* documents it changes or adds are the principal's, the credential an
\* answered get, update or delete names is the principal's, and a title is
\* answered from a credential of the principal.
C28_OnlyOwnCredentials ==
    [][\A t \in Tasks :
        (/\ Handled(t)
         /\ request[t].route \in
                {"create_credential", "get_credential",
                 "get_credential_by_title", "get_all_credentials",
                 "update_credential", "delete_credential"})
        => /\ \A c \in credential_collection \ credential_collection' :
                c.user_id = Principal(t)
           /\ \A c \in credential_collection' \ credential_collection :
                c.user_id = Principal(t)
           /\ (/\ response'[t].status = 200
               /\ request[t].route \in {"get_credential", "update_credential",
                                        "delete_credential"})
              => \E c \in credential_collection :
                    /\ c.id = request[t].credential_id
                    /\ c.user_id = Principal(t)
           /\ (/\ response'[t].status = 200
               /\ request[t].route = "get_credential_by_title")
              => \E c \in credential_collection :
                    /\ c.title = request[t].title
                    /\ ~c.is_deleted
                    /\ c.user_id = Principal(t)
           /\ (response'[t].status = 200) => request[t].id = Principal(t)
      ]_vars

\* u1 asked for the title of a credential that only u2 has and for the
\* update of u2's credential, and was answered not-found with u2's
\* credential as it was.
C28_Witness ==
    \E t \in Tasks :
        /\ pc[t] = "sent"
        /\ Principal(t) = "u1"
        /\ \/ request[t].route = "get_credential_by_title"
              /\ request[t].title = "t2"
           \/ request[t].route = "update_credential"
              /\ request[t].credential_id = "c2"
        /\ response[t].status = 404
        /\ response[t].detail = "Credential not found"
        /\ Credential("c2", "u2", "t2", FALSE) \in credential_collection

\* The ids of the users that are soft-deleted.
DeletedIds == {u.id : u \in {v \in user_collection : v.is_deleted}}

\* The step leaves the record and the credentials of every soft-deleted
\* user as they are.
DeletedUntouched ==
    \A u \in user_collection :
        u.is_deleted
        => /\ u \in user_collection'
           /\ {c \in credential_collection : c.user_id = u.id}
                = {c \in credential_collection' : c.user_id = u.id}

\* A soft-deleted user that calls a route on its own path with a token that
\* still verifies is answered not-found.
DeletedOwnerNotFound(t) ==
    (/\ request[t].route \in ScopedRoutes
     /\ Principal(t) = request[t].id
     /\ Principal(t) \in DeletedIds)
    => response'[t].status = 404

\* C29 as stated: once a user is soft-deleted no operation returns or
\* changes its record or credentials, even with its unexpired token: the
\* user and credential routes answer not-found, and a login with the
\* username of the deleted user is rejected.
C29_DeletedUserIsGone ==
    [][\A t \in Tasks :
        Handled(t)
        => /\ DeletedUntouched
           /\ DeletedOwnerNotFound(t)
           /\ (/\ request[t].route = "login"
               /\ \E u \in user_collection :
                    u.is_deleted /\ u.username = request[t].username)
              => response'[t].status = 401
      ]_vars

\* C29 as amended: the same, where a login with the username of the
\* deleted user is rejected unless a user that is not deleted holds the
\* username, and a login never issues a token of a deleted user.
C29_DeletedUserIsGoneUnlessRenamed ==
    [][\A t \in Tasks :
        Handled(t)
        => /\ DeletedUntouched
           /\ DeletedOwnerNotFound(t)
           /\ (/\ request[t].route = "login"
               /\ \A u \in user_collection :
                    u.username = request[t].username => u.is_deleted)
              => response'[t].status = 401
           /\ (request[t].route = "login" /\ response'[t].status = 200)
              => response'[t].access_token.id \notin DeletedIds
      ]_vars

\* u1 was soft-deleted and then asked for its credential with its token,
\* which still verifies, and was answered not-found.
C29_Witness ==
    \E t \in Tasks :
        /\ pc[t] = "sent"
        /\ request[t].route = "get_credential"
        /\ request[t].credential_id = "c1"
        /\ Principal(t) = "u1"
        /\ "u1" \in DeletedIds
        /\ response[t].status = 404
        /\ Credential("c1", "u1", "t1", FALSE) \in credential_collection

\* C30: no two users that are not deleted have the same username, after
\* whatever creations, updates and deletions.
C30_LiveUsernamesUnique ==
    \A u, v \in user_collection :
        (~u.is_deleted /\ ~v.is_deleted /\ u.username = v.username) => u = v

====
